---------------------------- MODULE Spec2Model ----------------------------
(***************************************************************************)
(* License-plate validation service (src/src/api/license_plate.py).        *)
(*                                                                         *)
(* A string is a sequence of Unicode code points (naturals): TLA+ string   *)
(* literals are ASCII-only, and the plate alphabet is Cyrillic.            *)
(*   1040 A-cyr  1042 V  1045 E  1050 K  1052 M  1053 N  1054 O  1056 R    *)
(*   1057 S  1058 T-cyr  1059 U  1061 H      1044 D-cyr (diplomatic)       *)
(*   lower-case Cyrillic = upper + 32;  48..57 ASCII digits;               *)
(*   32 space, 45 hyphen, 44 comma, 10 line feed, 65 Latin A, 97 Latin a   *)
(* The tables of digits, white space and upper case are those of Unicode    *)
(* 14.0.0, the version of the interpreter's unicodedata.                    *)
(***************************************************************************)
EXTENDS Naturals, Integers, Sequences, FiniteSets, Bags

VARIABLES
    validation_stats,   \* the module-level counters dict
    pending,            \* requests received and not yet handled
    last,               \* the request handled last, its response, the counters before it
    issued,             \* number of requests received so far
    overlapped,         \* whether two requests were ever pending together
    expect,             \* what the requests received so far classify: [valid, invalid]
    plate_number,       \* classifier run: the argument of validate_russian_plate
    result              \* classifier run: the returned dict, or NotCalled

vars == <<validation_stats, pending, last, issued, overlapped, expect, plate_number, result>>

---------------------------------------------------------------------------
(* Bounds of the model *)

MaxLen == 9          \* longest classifier argument over CoreChars
MaxRawLen == 7       \* longest classifier argument over RawChars
MaxWideLen == 7      \* longest classifier argument over WideChars

---------------------------------------------------------------------------
(* Characters *)

None == <<-1>>       \* Python None where a string is expected

PlateLetters == {1040, 1042, 1045, 1050, 1052, 1053, 1054, 1056, 1057, 1058, 1059, 1061}

LetterT == 1058
LetterD == 1044
LineFeed == 10
Space == 32
Hyphen == 45
Comma == 44

\* the code points of Unicode category Nd (660, in 62 ranges), which \d of a
\* str pattern matches: <<first, last>>
DigitRanges == {
    <<48, 57>>, <<1632, 1641>>, <<1776, 1785>>, <<1984, 1993>>, <<2406, 2415>>, <<2534, 2543>>,
    <<2662, 2671>>, <<2790, 2799>>, <<2918, 2927>>, <<3046, 3055>>, <<3174, 3183>>, <<3302, 3311>>,
    <<3430, 3439>>, <<3558, 3567>>, <<3664, 3673>>, <<3792, 3801>>, <<3872, 3881>>, <<4160, 4169>>,
    <<4240, 4249>>, <<6112, 6121>>, <<6160, 6169>>, <<6470, 6479>>, <<6608, 6617>>, <<6784, 6793>>,
    <<6800, 6809>>, <<6992, 7001>>, <<7088, 7097>>, <<7232, 7241>>, <<7248, 7257>>,
    <<42528, 42537>>, <<43216, 43225>>, <<43264, 43273>>, <<43472, 43481>>, <<43504, 43513>>,
    <<43600, 43609>>, <<44016, 44025>>, <<65296, 65305>>, <<66720, 66729>>, <<68912, 68921>>,
    <<69734, 69743>>, <<69872, 69881>>, <<69942, 69951>>, <<70096, 70105>>, <<70384, 70393>>,
    <<70736, 70745>>, <<70864, 70873>>, <<71248, 71257>>, <<71360, 71369>>, <<71472, 71481>>,
    <<71904, 71913>>, <<72016, 72025>>, <<72784, 72793>>, <<73040, 73049>>, <<73120, 73129>>,
    <<92768, 92777>>, <<92864, 92873>>, <<93008, 93017>>, <<120782, 120831>>, <<123200, 123209>>,
    <<123632, 123641>>, <<125264, 125273>>, <<130032, 130041>> }

Digits == UNION {r[1]..r[2] : r \in DigitRanges}

\* \d of a str pattern
IsDigit(c) == c \in Digits

\* str.upper(), the characters mapped to one character: <<first, last, step, delta>>
\* says that first, first + step, ..., last each map to themselves + delta
UpperRuns == {
    <<97, 122, 1, -32>>, <<181, 181, 1, 743>>, <<224, 246, 1, -32>>, <<248, 254, 1, -32>>,
    <<255, 255, 1, 121>>, <<257, 303, 2, -1>>, <<305, 305, 1, -232>>, <<307, 311, 2, -1>>,
    <<314, 328, 2, -1>>, <<331, 375, 2, -1>>, <<378, 382, 2, -1>>, <<383, 383, 1, -300>>,
    <<384, 384, 1, 195>>, <<387, 389, 2, -1>>, <<392, 392, 1, -1>>, <<396, 396, 1, -1>>,
    <<402, 402, 1, -1>>, <<405, 405, 1, 97>>, <<409, 409, 1, -1>>, <<410, 410, 1, 163>>,
    <<414, 414, 1, 130>>, <<417, 421, 2, -1>>, <<424, 424, 1, -1>>, <<429, 429, 1, -1>>,
    <<432, 432, 1, -1>>, <<436, 438, 2, -1>>, <<441, 441, 1, -1>>, <<445, 445, 1, -1>>,
    <<447, 447, 1, 56>>, <<453, 453, 1, -1>>, <<454, 454, 1, -2>>, <<456, 456, 1, -1>>,
    <<457, 457, 1, -2>>, <<459, 459, 1, -1>>, <<460, 460, 1, -2>>, <<462, 476, 2, -1>>,
    <<477, 477, 1, -79>>, <<479, 495, 2, -1>>, <<498, 498, 1, -1>>, <<499, 499, 1, -2>>,
    <<501, 501, 1, -1>>, <<505, 543, 2, -1>>, <<547, 563, 2, -1>>, <<572, 572, 1, -1>>,
    <<575, 576, 1, 10815>>, <<578, 578, 1, -1>>, <<583, 591, 2, -1>>, <<592, 592, 1, 10783>>,
    <<593, 593, 1, 10780>>, <<594, 594, 1, 10782>>, <<595, 595, 1, -210>>, <<596, 596, 1, -206>>,
    <<598, 599, 1, -205>>, <<601, 601, 1, -202>>, <<603, 603, 1, -203>>, <<604, 604, 1, 42319>>,
    <<608, 608, 1, -205>>, <<609, 609, 1, 42315>>, <<611, 611, 1, -207>>, <<613, 613, 1, 42280>>,
    <<614, 614, 1, 42308>>, <<616, 616, 1, -209>>, <<617, 617, 1, -211>>, <<618, 618, 1, 42308>>,
    <<619, 619, 1, 10743>>, <<620, 620, 1, 42305>>, <<623, 623, 1, -211>>, <<625, 625, 1, 10749>>,
    <<626, 626, 1, -213>>, <<629, 629, 1, -214>>, <<637, 637, 1, 10727>>, <<640, 640, 1, -218>>,
    <<642, 642, 1, 42307>>, <<643, 643, 1, -218>>, <<647, 647, 1, 42282>>, <<648, 648, 1, -218>>,
    <<649, 649, 1, -69>>, <<650, 651, 1, -217>>, <<652, 652, 1, -71>>, <<658, 658, 1, -219>>,
    <<669, 669, 1, 42261>>, <<670, 670, 1, 42258>>, <<837, 837, 1, 84>>, <<881, 883, 2, -1>>,
    <<887, 887, 1, -1>>, <<891, 893, 1, 130>>, <<940, 940, 1, -38>>, <<941, 943, 1, -37>>,
    <<945, 961, 1, -32>>, <<962, 962, 1, -31>>, <<963, 971, 1, -32>>, <<972, 972, 1, -64>>,
    <<973, 974, 1, -63>>, <<976, 976, 1, -62>>, <<977, 977, 1, -57>>, <<981, 981, 1, -47>>,
    <<982, 982, 1, -54>>, <<983, 983, 1, -8>>, <<985, 1007, 2, -1>>, <<1008, 1008, 1, -86>>,
    <<1009, 1009, 1, -80>>, <<1010, 1010, 1, 7>>, <<1011, 1011, 1, -116>>, <<1013, 1013, 1, -96>>,
    <<1016, 1016, 1, -1>>, <<1019, 1019, 1, -1>>, <<1072, 1103, 1, -32>>, <<1104, 1119, 1, -80>>,
    <<1121, 1153, 2, -1>>, <<1163, 1215, 2, -1>>, <<1218, 1230, 2, -1>>, <<1231, 1231, 1, -15>>,
    <<1233, 1327, 2, -1>>, <<1377, 1414, 1, -48>>, <<4304, 4346, 1, 3008>>,
    <<4349, 4351, 1, 3008>>, <<5112, 5117, 1, -8>>, <<7296, 7296, 1, -6254>>,
    <<7297, 7297, 1, -6253>>, <<7298, 7298, 1, -6244>>, <<7299, 7300, 1, -6242>>,
    <<7301, 7301, 1, -6243>>, <<7302, 7302, 1, -6236>>, <<7303, 7303, 1, -6181>>,
    <<7304, 7304, 1, 35266>>, <<7545, 7545, 1, 35332>>, <<7549, 7549, 1, 3814>>,
    <<7566, 7566, 1, 35384>>, <<7681, 7829, 2, -1>>, <<7835, 7835, 1, -59>>, <<7841, 7935, 2, -1>>,
    <<7936, 7943, 1, 8>>, <<7952, 7957, 1, 8>>, <<7968, 7975, 1, 8>>, <<7984, 7991, 1, 8>>,
    <<8000, 8005, 1, 8>>, <<8017, 8023, 2, 8>>, <<8032, 8039, 1, 8>>, <<8048, 8049, 1, 74>>,
    <<8050, 8053, 1, 86>>, <<8054, 8055, 1, 100>>, <<8056, 8057, 1, 128>>, <<8058, 8059, 1, 112>>,
    <<8060, 8061, 1, 126>>, <<8112, 8113, 1, 8>>, <<8126, 8126, 1, -7205>>, <<8144, 8145, 1, 8>>,
    <<8160, 8161, 1, 8>>, <<8165, 8165, 1, 7>>, <<8526, 8526, 1, -28>>, <<8560, 8575, 1, -16>>,
    <<8580, 8580, 1, -1>>, <<9424, 9449, 1, -26>>, <<11312, 11359, 1, -48>>,
    <<11361, 11361, 1, -1>>, <<11365, 11365, 1, -10795>>, <<11366, 11366, 1, -10792>>,
    <<11368, 11372, 2, -1>>, <<11379, 11379, 1, -1>>, <<11382, 11382, 1, -1>>,
    <<11393, 11491, 2, -1>>, <<11500, 11502, 2, -1>>, <<11507, 11507, 1, -1>>,
    <<11520, 11557, 1, -7264>>, <<11559, 11559, 1, -7264>>, <<11565, 11565, 1, -7264>>,
    <<42561, 42605, 2, -1>>, <<42625, 42651, 2, -1>>, <<42787, 42799, 2, -1>>,
    <<42803, 42863, 2, -1>>, <<42874, 42876, 2, -1>>, <<42879, 42887, 2, -1>>,
    <<42892, 42892, 1, -1>>, <<42897, 42899, 2, -1>>, <<42900, 42900, 1, 48>>,
    <<42903, 42921, 2, -1>>, <<42933, 42947, 2, -1>>, <<42952, 42954, 2, -1>>,
    <<42961, 42961, 1, -1>>, <<42967, 42969, 2, -1>>, <<42998, 42998, 1, -1>>,
    <<43859, 43859, 1, -928>>, <<43888, 43967, 1, -38864>>, <<65345, 65370, 1, -32>>,
    <<66600, 66639, 1, -40>>, <<66776, 66811, 1, -40>>, <<66967, 66977, 1, -39>>,
    <<66979, 66993, 1, -39>>, <<66995, 67001, 1, -39>>, <<67003, 67004, 1, -39>>,
    <<68800, 68850, 1, -64>>, <<71872, 71903, 1, -32>>, <<93792, 93823, 1, -32>>,
    <<125218, 125251, 1, -34>> }

\* str.upper(), the characters mapped to several characters: <<c, upper(c)>>
UpperSpecial == {
    <<223, <<83, 83>>>>, <<329, <<700, 78>>>>, <<496, <<74, 780>>>>, <<912, <<921, 776, 769>>>>,
    <<944, <<933, 776, 769>>>>, <<1415, <<1333, 1362>>>>, <<7830, <<72, 817>>>>,
    <<7831, <<84, 776>>>>, <<7832, <<87, 778>>>>, <<7833, <<89, 778>>>>, <<7834, <<65, 702>>>>,
    <<8016, <<933, 787>>>>, <<8018, <<933, 787, 768>>>>, <<8020, <<933, 787, 769>>>>,
    <<8022, <<933, 787, 834>>>>, <<8064, <<7944, 921>>>>, <<8065, <<7945, 921>>>>,
    <<8066, <<7946, 921>>>>, <<8067, <<7947, 921>>>>, <<8068, <<7948, 921>>>>,
    <<8069, <<7949, 921>>>>, <<8070, <<7950, 921>>>>, <<8071, <<7951, 921>>>>,
    <<8072, <<7944, 921>>>>, <<8073, <<7945, 921>>>>, <<8074, <<7946, 921>>>>,
    <<8075, <<7947, 921>>>>, <<8076, <<7948, 921>>>>, <<8077, <<7949, 921>>>>,
    <<8078, <<7950, 921>>>>, <<8079, <<7951, 921>>>>, <<8080, <<7976, 921>>>>,
    <<8081, <<7977, 921>>>>, <<8082, <<7978, 921>>>>, <<8083, <<7979, 921>>>>,
    <<8084, <<7980, 921>>>>, <<8085, <<7981, 921>>>>, <<8086, <<7982, 921>>>>,
    <<8087, <<7983, 921>>>>, <<8088, <<7976, 921>>>>, <<8089, <<7977, 921>>>>,
    <<8090, <<7978, 921>>>>, <<8091, <<7979, 921>>>>, <<8092, <<7980, 921>>>>,
    <<8093, <<7981, 921>>>>, <<8094, <<7982, 921>>>>, <<8095, <<7983, 921>>>>,
    <<8096, <<8040, 921>>>>, <<8097, <<8041, 921>>>>, <<8098, <<8042, 921>>>>,
    <<8099, <<8043, 921>>>>, <<8100, <<8044, 921>>>>, <<8101, <<8045, 921>>>>,
    <<8102, <<8046, 921>>>>, <<8103, <<8047, 921>>>>, <<8104, <<8040, 921>>>>,
    <<8105, <<8041, 921>>>>, <<8106, <<8042, 921>>>>, <<8107, <<8043, 921>>>>,
    <<8108, <<8044, 921>>>>, <<8109, <<8045, 921>>>>, <<8110, <<8046, 921>>>>,
    <<8111, <<8047, 921>>>>, <<8114, <<8122, 921>>>>, <<8115, <<913, 921>>>>,
    <<8116, <<902, 921>>>>, <<8118, <<913, 834>>>>, <<8119, <<913, 834, 921>>>>,
    <<8124, <<913, 921>>>>, <<8130, <<8138, 921>>>>, <<8131, <<919, 921>>>>,
    <<8132, <<905, 921>>>>, <<8134, <<919, 834>>>>, <<8135, <<919, 834, 921>>>>,
    <<8140, <<919, 921>>>>, <<8146, <<921, 776, 768>>>>, <<8147, <<921, 776, 769>>>>,
    <<8150, <<921, 834>>>>, <<8151, <<921, 776, 834>>>>, <<8162, <<933, 776, 768>>>>,
    <<8163, <<933, 776, 769>>>>, <<8164, <<929, 787>>>>, <<8166, <<933, 834>>>>,
    <<8167, <<933, 776, 834>>>>, <<8178, <<8186, 921>>>>, <<8179, <<937, 921>>>>,
    <<8180, <<911, 921>>>>, <<8182, <<937, 834>>>>, <<8183, <<937, 834, 921>>>>,
    <<8188, <<937, 921>>>>, <<64256, <<70, 70>>>>, <<64257, <<70, 73>>>>, <<64258, <<70, 76>>>>,
    <<64259, <<70, 70, 73>>>>, <<64260, <<70, 70, 76>>>>, <<64261, <<83, 84>>>>,
    <<64262, <<83, 84>>>>, <<64275, <<1348, 1350>>>>, <<64276, <<1348, 1333>>>>,
    <<64277, <<1348, 1339>>>>, <<64278, <<1358, 1350>>>>, <<64279, <<1348, 1341>>>> }

\* the 1525 code points str.upper() changes, each with its upper case
UpperPairs ==
    UNION { { <<r[1] + k * r[3], <<r[1] + k * r[3] + r[4]>> >> : k \in 0..((r[2] - r[1]) \div r[3]) } :
            r \in UpperRuns } \cup UpperSpecial

UpperMap == [c \in {p[1] : p \in UpperPairs} |-> (CHOOSE p \in UpperPairs : p[1] = c)[2]]

\* str.upper() on one character: a string of one to three characters
UpperChar(c) == IF c \in DOMAIN UpperMap THEN UpperMap[c] ELSE <<c>>

RECURSIVE Upper(_)
\* str.upper(): the upper cases of the characters, concatenated
Upper(s) == IF s = <<>> THEN <<>> ELSE UpperChar(Head(s)) \o Upper(Tail(s))

\* str.replace(c, ""): every occurrence of c is removed
Remove(s, c) ==
    LET Kept(x) == x /= c
    IN  SelectSeq(s, Kept)

RECURSIVE RemoveFirst(_, _)
\* str.replace(c, "", 1): only the first occurrence of c is removed
RemoveFirst(s, c) ==
    IF s = <<>> THEN <<>>
    ELSE IF Head(s) = c THEN Tail(s)
    ELSE <<Head(s)>> \o RemoveFirst(Tail(s), c)

\* variant: replace(..., 1) removes one space and one hyphen only
NormalizeFirstOnly(s) == RemoveFirst(RemoveFirst(Upper(s), Space), Hyphen)

\* plate_number.upper().replace(" ", "").replace("-", "")
Normalize(s) == Remove(Remove(Upper(s), Space), Hyphen)

---------------------------------------------------------------------------
(* The pattern table *)

Item(cls, lo, hi) == [cls |-> cls, min |-> lo, max |-> hi]

InClass(c, cls) ==
    CASE cls = "letter" -> c \in PlateLetters
      [] cls = "digit"  -> IsDigit(c)
      [] cls = "T"      -> c = LetterT
      [] cls = "D"      -> c = LetterD

\* the dict literal, in insertion order
patterns == <<
    [name |-> "standard",   re |-> <<Item("letter", 1, 1), Item("digit", 3, 3), Item("letter", 2, 2), Item("digit", 2, 3)>>],
    [name |-> "taxi",       re |-> <<Item("letter", 2, 2), Item("digit", 3, 3), Item("digit", 2, 3)>>],
    [name |-> "trailer",    re |-> <<Item("letter", 2, 2), Item("digit", 4, 4), Item("digit", 2, 3)>>],
    [name |-> "motorcycle", re |-> <<Item("digit", 4, 4), Item("letter", 2, 2), Item("digit", 2, 3)>>],
    [name |-> "transit",    re |-> <<Item("T", 1, 1), Item("digit", 5, 5), Item("letter", 1, 1)>>],
    [name |-> "diplomatic", re |-> <<Item("digit", 3, 4), Item("D", 1, 1), Item("digit", 2, 3)>>] >>

\* the positions after a run of n characters of class cls starting at pos
RunOk(s, pos, n, cls) ==
    /\ pos + n - 1 <= Len(s)
    /\ \A k \in pos..(pos + n - 1) : InClass(s[k], cls)

RECURSIVE Ends(_, _, _, _)
\* the positions where a match of the items k.. of re, begun at pos, can end
Ends(re, k, s, pos) ==
    IF k > Len(re) THEN {pos}
    ELSE UNION { Ends(re, k + 1, s, pos + n) :
                   n \in {m \in re[k].min..re[k].max : RunOk(s, pos, m, re[k].cls)} }

\* $ without re.MULTILINE: at the end, or just before a line feed that ends the string
AtDollar(s, pos) ==
    \/ pos = Len(s) + 1
    \/ pos = Len(s) /\ s[pos] = LineFeed

\* re.match(r"^...$", s)
ReMatch(re, s) == \E e \in Ends(re, 1, s, 1) : AtDollar(s, e)

---------------------------------------------------------------------------
(* Region extraction *)

\* s[-n:]
LastN(s, n) == SubSeq(s, IF Len(s) > n THEN Len(s) - n + 1 ELSE 1, Len(s))

\* line 67
RegionStandard(s) == IF Len(s) = 8 THEN LastN(s, 2) ELSE LastN(s, 3)

\* variant: < 8 instead of <= 8
RegionOtherStrict(s) == IF Len(s) < 8 THEN LastN(s, 2) ELSE LastN(s, 3)

\* line 69
RegionOther(s) == IF Len(s) <= 8 THEN LastN(s, 2) ELSE LastN(s, 3)

RECURSIVE SplitOn(_, _)
\* s.split(sep) for a one-character sep
SplitOn(s, sep) ==
    IF \A k \in 1..Len(s) : s[k] /= sep THEN <<s>>
    ELSE LET i == CHOOSE k \in 1..Len(s) : s[k] = sep /\ \A j \in 1..(k - 1) : s[j] /= sep
         IN  <<SubSeq(s, 1, i - 1)>> \o SplitOn(SubSeq(s, i + 1, Len(s)), sep)

\* lines 63-72
RegionOf(plate_type, s) ==
    IF plate_type \in {"standard", "taxi", "trailer", "motorcycle"}
    THEN IF plate_type = "standard" THEN RegionStandard(s) ELSE RegionOther(s)
    ELSE IF plate_type = "diplomatic" THEN SplitOn(s, LetterD)[2]
    ELSE None

---------------------------------------------------------------------------
(* validate_russian_plate *)

Matching(s) == {k \in 1..Len(patterns) : ReMatch(patterns[k].re, s)}

InvalidResult ==
    [is_valid |-> FALSE, plate_type |-> "None", region_code |-> None,
     message |-> <<"invalid_format">>]

\* the loop over patterns.items() on the normalized string s
FirstMatch(s) ==
    LET matching == Matching(s)
    IN  IF matching = {} THEN InvalidResult
        ELSE LET k == CHOOSE i \in matching : \A j \in matching : i <= j
                 t == patterns[k].name
             IN  [is_valid |-> TRUE, plate_type |-> t, region_code |-> RegionOf(t, s),
                  message |-> <<"valid_plate_of_type", t>>]

validate_russian_plate(raw) == FirstMatch(Normalize(raw))

---------------------------------------------------------------------------
(* Classifier runs *)

NotCalled == [is_valid |-> FALSE, plate_type |-> "NotCalled", region_code |-> None,
              message |-> <<>>]

\* Cyrillic A, T and D, the digit 1
CoreChars == {1040, 1058, 1044, 49}
\* lower-case Cyrillic d, the digit 1, space, hyphen, line feed
RawChars == {1076, 49, Space, Hyphen, LineFeed}

\* U+1C80 (small rounded ve, whose upper case is the plate-letter V), Devanagari
\* digit one, sharp s (whose upper case is SS), Cyrillic D
WideChars == {7296, 2407, 223, 1044}

\* the arguments tried: every string over CoreChars of at most MaxLen
\* characters, over RawChars of at most MaxRawLen, over WideChars of at most
\* MaxWideLen
InputFamilies ==
    { [chars |-> CoreChars, maxlen |-> MaxLen], [chars |-> RawChars, maxlen |-> MaxRawLen],
      [chars |-> WideChars, maxlen |-> MaxWideLen] }

---------------------------------------------------------------------------
(* The HTTP front end *)

MaxPlates == 10      \* line 164
MinLength == 1       \* Field(min_length=1), line 13
MaxLength == 20      \* Field(max_length=20), line 13

\* the 29 code points str.strip() removes: <<first, last>>
SpaceRanges == {
    <<9, 13>>, <<28, 32>>, <<133, 133>>, <<160, 160>>, <<5760, 5760>>, <<8192, 8202>>,
    <<8232, 8233>>, <<8239, 8239>>, <<8287, 8287>>, <<12288, 12288>> }

Spaces == UNION {r[1]..r[2] : r \in SpaceRanges}

\* white space as str.strip() sees it
IsSpace(c) == c \in Spaces

RECURSIVE LStrip(_)
LStrip(s) == IF s /= <<>> /\ IsSpace(Head(s)) THEN LStrip(Tail(s)) ELSE s

RECURSIVE RStrip(_)
RStrip(s) ==
    IF s /= <<>> /\ IsSpace(s[Len(s)]) THEN RStrip(SubSeq(s, 1, Len(s) - 1)) ELSE s

\* str.strip()
Strip(s) == RStrip(LStrip(s))

\* not v or not v.strip()
IsBlank(s) == s = <<>> \/ Strip(s) = <<>>

\* variant: the else branch that counts an invalid plate is missing
UpdateStatsValidOnly(stats, is_valid) ==
    IF is_valid
    THEN [stats EXCEPT !.total = @ + 1, !.valid = @ + 1]
    ELSE [stats EXCEPT !.total = @ + 1]

\* lines 100-104, 133-137, 173-177
UpdateStats(stats, is_valid) ==
    IF is_valid
    THEN [stats EXCEPT !.total = @ + 1, !.valid = @ + 1]
    ELSE [stats EXCEPT !.total = @ + 1, !.invalid = @ + 1]

\* LicensePlateResponse(plate_number=p.upper().replace(...).replace(...), **validation_result)
Response(p, validation_result) ==
    [plate_number |-> Normalize(p),
     is_valid     |-> validation_result.is_valid,
     region_code  |-> validation_result.region_code,
     plate_type   |-> validation_result.plate_type,
     message      |-> validation_result.message]

Reply(status, body, stats) == [status |-> status, body |-> body, stats |-> stats]

\* the try block shared by the two single-plate handlers. Nothing in it can
\* raise (validate_russian_plate is total, the response fields are well typed),
\* so the except branches, here and in the batch loop, are never taken.
CheckOne(p, stats) ==
    LET validation_result == validate_russian_plate(p)
    IN  Reply(200, Response(p, validation_result),
              UpdateStats(stats, validation_result.is_valid))

\* LicensePlateRequest: the length limits, then the validator
\* (RequestValidationError is answered 422 by app.py), then the handler
validate_license_plate(raw, stats) ==
    IF Len(raw) < MinLength \/ Len(raw) > MaxLength THEN Reply(422, <<"validation_error">>, stats)
    ELSE IF IsBlank(raw) THEN Reply(422, <<"validation_error">>, stats)
    ELSE CheckOne(Strip(raw), stats)

\* variant: the handler answers without updating the counters
get_license_plate_infoNoCount(p, stats) ==
    IF IsBlank(p) THEN Reply(400, <<"empty_plate">>, stats)
    ELSE Reply(200, Response(p, validate_russian_plate(p)), stats)

get_license_plate_info(p, stats) ==
    IF IsBlank(p) THEN Reply(400, <<"empty_plate">>, stats)
    ELSE CheckOne(p, stats)

\* [plate.strip() for plate in plates.split(',') if plate.strip()]
PlateList(plates) ==
    LET parts == SplitOn(plates, Comma)
        stripped == [k \in 1..Len(parts) |-> Strip(parts[k])]
        NonEmpty(e) == e /= <<>>
    IN  SelectSeq(stripped, NonEmpty)

\* variant: the limit is off by one
TooManyOffByOne(plate_list) == Len(plate_list) > MaxPlates + 1

\* line 164
TooMany(plate_list) == Len(plate_list) > MaxPlates

\* variant: results.insert(0, ...) instead of results.append(...)
RECURSIVE BatchLoopPrepend(_, _, _)
BatchLoopPrepend(plate_list, results, stats) ==
    IF plate_list = <<>> THEN [results |-> results, stats |-> stats]
    ELSE LET plate == Head(plate_list)
             validation_result == validate_russian_plate(plate)
         IN  BatchLoopPrepend(Tail(plate_list),
                              <<Response(plate, validation_result)>> \o results,
                              UpdateStats(stats, validation_result.is_valid))

RECURSIVE BatchLoop(_, _, _)
\* lines 167-191: for plate in plate_list
BatchLoop(plate_list, results, stats) ==
    IF plate_list = <<>> THEN [results |-> results, stats |-> stats]
    ELSE LET plate == Head(plate_list)
             validation_result == validate_russian_plate(plate)
         IN  BatchLoop(Tail(plate_list),
                       Append(results, Response(plate, validation_result)),
                       UpdateStats(stats, validation_result.is_valid))

validate_multiple_plates(plates, stats) ==
    LET plate_list == PlateList(plates)
    IN  IF plate_list = <<>> THEN Reply(400, <<"no_plates">>, stats)
        ELSE IF TooMany(plate_list) THEN Reply(400, <<"too_many_plates">>, stats)
        ELSE LET done == BatchLoop(plate_list, <<>>, stats)
             IN  Reply(200, done.results, done.stats)

get_validation_stats(stats) ==
    Reply(200, [total_validated |-> stats.total,
                valid_plates    |-> stats.valid,
                invalid_plates  |-> stats.invalid], stats)

\* the router: one handler per request kind
Handler(req, stats) ==
    CASE req.kind = "post"  -> validate_license_plate(req.arg, stats)
      [] req.kind = "get"   -> get_license_plate_info(req.arg, stats)
      [] req.kind = "batch" -> validate_multiple_plates(req.arg, stats)
      [] req.kind = "stats" -> get_validation_stats(stats)

---------------------------------------------------------------------------
(* Requests the clients send *)

MaxRequests == 3     \* requests received in one run
MaxSegments == 11    \* comma-separated segments of a batch query
MaxShortBatch == 2   \* the batch sizes below MaxPlates - 1 that are tried

SinglePlates == {
    <<1072, 32, 49, 50, 51, 45, 7296, 1090, 32, 55, 55, 55>>,      \* a standard plate, lower case (U+1C80 for V), spaced, region 777
    <<65, 49>>,                                                    \* Latin "A1"
    <<Space, 12288>>,                                              \* blank: a space and an ideographic space
    <<49, 50, 51, 1044, 55, 55, LineFeed>> }                       \* a diplomatic plate and a line feed

\* the segments of the generated batch queries, taken in turn:
\* a lower-case transit plate between a space and an em space, Latin "A1",
\* a diplomatic plate
SegmentCycle ==
    << <<Space, 1090, 49, 49, 49, 49, 49, 1072, 8195>>, <<65, 49>>, <<49, 50, 51, 1044, 55, 55>> >>

\* queries with blank and empty segments: "", " ,<em space>", ",A1, ,"
BlankQueries ==
    { <<>>, <<Space, Comma, 8195>>, <<Comma, 65, 49, Comma, Space, Comma>> }

RECURSIVE Join(_)
\* ",".join(segments)
Join(segments) ==
    IF Len(segments) = 0 THEN <<>>
    ELSE IF Len(segments) = 1 THEN segments[1]
    ELSE segments[1] \o <<Comma>> \o Join(Tail(segments))

\* n segments taken in turn from the cycle
Segments(n) == [k \in 1..n |-> SegmentCycle[((k - 1) % Len(SegmentCycle)) + 1]]

\* short batches, and batches around the limit of MaxPlates
BatchSizes == {n \in 1..MaxSegments : n <= MaxShortBatch \/ n >= MaxPlates - 1}

BatchQueries == { Join(Segments(n)) : n \in BatchSizes } \cup BlankQueries

Requests ==
    {[kind |-> k, arg |-> p] : k \in {"post", "get"}, p \in SinglePlates}
    \cup {[kind |-> "batch", arg |-> q] : q \in BatchQueries}
    \cup {[kind |-> "stats", arg |-> <<>>]}

\* the plates a request gets classified
Classified(req) ==
    CASE req.kind = "post"  ->
           IF Len(req.arg) \in MinLength..MaxLength /\ ~IsBlank(req.arg)
           THEN <<Strip(req.arg)>> ELSE <<>>
      [] req.kind = "get"   -> IF IsBlank(req.arg) THEN <<>> ELSE <<req.arg>>
      [] req.kind = "batch" ->
           IF Len(PlateList(req.arg)) \in 1..MaxPlates THEN PlateList(req.arg) ELSE <<>>
      [] req.kind = "stats" -> <<>>

CountValid(plates) ==
    Cardinality({k \in 1..Len(plates) : validate_russian_plate(plates[k]).is_valid})

\* per request: how many valid and how many invalid plates it gets classified
Verdicts ==
    [req \in Requests |->
        LET plates == Classified(req)
            v == CountValid(plates)
        IN  [valid |-> v, invalid |-> Len(plates) - v]]

---------------------------------------------------------------------------
(* The service: requests arrive at any time and wait in pending; the event
   loop picks any of them and runs its handler. Every handler is an async def
   with no await in its body, so it runs to its return before another starts. *)

NoRequest == [kind |-> "none", arg |-> <<>>]

NoLast == [req |-> NoRequest, status |-> 0, body |-> <<>>,
           before |-> [total |-> 0, valid |-> 0, invalid |-> 0]]

ServiceIdle ==
    /\ validation_stats = [total |-> 0, valid |-> 0, invalid |-> 0]
    /\ pending = EmptyBag
    /\ last = NoLast
    /\ issued = 0
    /\ overlapped = FALSE
    /\ expect = [valid |-> 0, invalid |-> 0]

Init ==
    /\ ServiceIdle
    /\ plate_number = <<>>
    /\ result = NotCalled

Receive ==
    /\ issued < MaxRequests
    /\ \E req \in Requests :
         /\ pending' = pending (+) SetToBag({req})
         /\ expect' = [valid   |-> expect.valid + Verdicts[req].valid,
                       invalid |-> expect.invalid + Verdicts[req].invalid]
    /\ issued' = issued + 1
    /\ overlapped' = (overlapped \/ pending /= EmptyBag)
    /\ UNCHANGED <<validation_stats, last, plate_number, result>>

Handle ==
    /\ \E req \in BagToSet(pending) :
         LET reply == Handler(req, validation_stats)
         IN  /\ pending' = pending (-) SetToBag({req})
             /\ validation_stats' = reply.stats
             /\ last' = [req |-> req, status |-> reply.status, body |-> reply.body,
                         before |-> validation_stats]
    /\ UNCHANGED <<issued, overlapped, expect, plate_number, result>>

Next == Receive \/ Handle

Spec == Init /\ [][Next]_vars

---------------------------------------------------------------------------
(* Classifier runs: validate_russian_plate called on one string *)

InitClassify ==
    /\ ServiceIdle
    /\ plate_number = <<>>
    /\ result = NotCalled

Classify ==
    /\ result = NotCalled
    /\ \E family \in InputFamilies : \E n \in 0..family.maxlen :
         \E s \in [1..n -> family.chars] :
            /\ plate_number' = s
            /\ result' = validate_russian_plate(s)
    /\ UNCHANGED <<validation_stats, pending, last, issued, overlapped, expect>>

SpecClassify == InitClassify /\ [][Classify]_vars

---------------------------------------------------------------------------
(* Properties of the service *)

\* C1: the counters satisfy total = valid + invalid in every reachable state,
\* and so does every snapshot GET /stats/validation returns, also while other
\* requests are pending.
C1_TotalIsValidPlusInvalid ==
    /\ validation_stats.total = validation_stats.valid + validation_stats.invalid
    /\ last.req.kind = "stats" =>
         last.body.total_validated = last.body.valid_plates + last.body.invalid_plates

C1_StatsReadAmidRequests ==
    /\ last.req.kind = "stats"
    /\ pending /= EmptyBag
    /\ last.body.valid_plates > 0
    /\ last.body.invalid_plates > 0

\* C2: once every request received has been handled, the counters are exactly
\* the numbers of valid and invalid plates those requests classify, in whatever
\* order the handlers ran.
C2_NoLostUpdate ==
    pending = EmptyBag =>
        validation_stats = [total   |-> expect.valid + expect.invalid,
                            valid   |-> expect.valid,
                            invalid |-> expect.invalid]

C2_ConcurrentRequestsCompleted ==
    /\ pending = EmptyBag
    /\ overlapped
    /\ issued = MaxRequests
    /\ expect.valid >= 2
    /\ expect.invalid >= 1

IsInputError(req) ==
    \/ req.kind = "batch" /\ (Len(PlateList(req.arg)) = 0 \/ Len(PlateList(req.arg)) > MaxPlates)
    \/ req.kind = "get" /\ IsBlank(req.arg)

\* C7: a batch whose entry list is empty or longer than 10, and a GET of a
\* blank plate, are answered 400 and leave the three counters as they were.
C7_InputErrorsLeaveCounters ==
    IsInputError(last.req) =>
        /\ last.status = 400
        /\ validation_stats = last.before

C7_ElevenEntriesRejected ==
    /\ last.req.kind = "batch"
    /\ Len(PlateList(last.req.arg)) = MaxPlates + 1
    /\ last.status = 400
    /\ last.before.total > 0

\* C8: an accepted batch answers one record per entry, in input order, the
\* k-th carrying the normalized k-th entry and its classification, and adds
\* the number of entries to total.
C8_BatchOnePerEntryInOrder ==
    LET entries == PlateList(last.req.arg)
    IN  last.req.kind = "batch" /\ Len(entries) \in 1..MaxPlates =>
            /\ last.status = 200
            /\ Len(last.body) = Len(entries)
            /\ \A k \in 1..Len(entries) :
                 LET v == validate_russian_plate(entries[k])
                 IN  /\ last.body[k].plate_number = Normalize(entries[k])
                     /\ last.body[k].is_valid = v.is_valid
                     /\ last.body[k].plate_type = v.plate_type
                     /\ last.body[k].region_code = v.region_code
                     /\ last.body[k].message = v.message
            /\ validation_stats.total = last.before.total + Len(entries)

C8_FullMixedBatchAccepted ==
    /\ last.req.kind = "batch"
    /\ last.status = 200
    /\ Len(last.body) = MaxPlates
    /\ last.body[1].is_valid
    /\ ~last.body[2].is_valid
    /\ last.before.total > 0

---------------------------------------------------------------------------
(* Properties of the classifier *)

Called == result /= NotCalled

Normalized == Normalize(plate_number)

RegionTypes == {"standard", "taxi", "trailer", "motorcycle"}

\* C3: no normalized string matches more than one of the six patterns.
C3_AtMostOnePattern ==
    Called => Cardinality(Matching(Normalized)) <= 1

\* the layouts the docstring lists as supported, lines 40-46
DocumentedLayouts == <<
    [name |-> "standard",   re |-> <<Item("letter", 1, 1), Item("digit", 3, 3), Item("letter", 2, 2), Item("digit", 2, 3)>>],
    [name |-> "taxi",       re |-> <<Item("letter", 2, 2), Item("digit", 3, 3), Item("digit", 2, 3)>>],
    [name |-> "trailer",    re |-> <<Item("letter", 2, 2), Item("digit", 4, 4), Item("digit", 2, 3)>>],
    [name |-> "motorcycle", re |-> <<Item("digit", 4, 4), Item("letter", 2, 2), Item("digit", 2, 3)>>],
    [name |-> "transit",    re |-> <<Item("T", 1, 1), Item("digit", 5, 6), Item("letter", 1, 1)>>],
    [name |-> "diplomatic", re |-> <<Item("digit", 3, 4), Item("D", 1, 1), Item("digit", 3, 3)>>] >>

\* the whole of s has the layout
HasLayout(s, re) == (Len(s) + 1) \in Ends(re, 1, s, 1)

\* C4: every plate whose normalized form has a documented layout is valid,
\* with the type the layout is listed under.
C4_DocumentedLayoutsAccepted ==
    Called =>
        \A k \in 1..Len(DocumentedLayouts) :
            HasLayout(Normalized, DocumentedLayouts[k].re) =>
                result.is_valid /\ result.plate_type = DocumentedLayouts[k].name

\* C5 as stated: for every string classified standard, taxi, trailer or
\* motorcycle, the rule "last 2 if the length is exactly 8, else last 3" and the
\* rule "last 2 if the length is at most 8, else last 3" give the same region.
C5_ThresholdsInterchangeable ==
    result.plate_type \in RegionTypes =>
        RegionStandard(Normalized) = RegionOther(Normalized)

\* C5 amended: the two rules give the same region for every string classified
\* standard, trailer or motorcycle, and for a taxi string unless it has 7
\* characters, where they differ.
C5_ThresholdsAgreeExceptShortTaxi ==
    /\ result.plate_type \in {"standard", "trailer", "motorcycle"} =>
         RegionStandard(Normalized) = RegionOther(Normalized)
    /\ result.plate_type = "taxi" =>
         ((RegionStandard(Normalized) = RegionOther(Normalized)) <=> Len(Normalized) /= 7)

C5_BothBranchesClassified ==
    /\ result.plate_type = "motorcycle"
    /\ Len(Normalized) = 8
    /\ result.region_code = <<49, 49>>

\* C6: classifying a string and classifying its normalized form give the same
\* result, and normalizing twice is normalizing once.
C6_NormalizationInvariant ==
    Called =>
        /\ result = validate_russian_plate(Normalize(plate_number))
        /\ Normalize(Normalize(plate_number)) = Normalize(plate_number)

C6_SpacedLowerCaseValid ==
    /\ result.is_valid
    /\ \E k \in 1..Len(plate_number) : plate_number[k] = Space
    /\ \E k \in 1..Len(plate_number) : plate_number[k] = 1076
    /\ result.region_code = <<49, 49>>

InPlateAlphabet(c) == IsDigit(c) \/ c \in PlateLetters \/ c = LetterD

\* C9: a string whose normalized form has a character that is no digit, no
\* plate-letter and not the diplomatic letter is invalid, with no type and no
\* region.
C9_OnlyPlateAlphabet ==
    Called /\ (\E k \in 1..Len(Normalized) : ~InPlateAlphabet(Normalized[k])) =>
        /\ ~result.is_valid
        /\ result.plate_type = "None"
        /\ result.region_code = None

\* the length of the part of a layout that precedes the region group
FixedWidth(plate_type) == IF plate_type = "taxi" THEN 5 ELSE 6

\* C10: for a plate classified standard, taxi, trailer or motorcycle the region
\* code is everything after the fixed-width part of that type's layout.
C10_RegionIsTrailingGroup ==
    result.plate_type \in RegionTypes =>
        result.region_code =
            SubSeq(Normalized, FixedWidth(result.plate_type) + 1, Len(Normalized))

=============================================================================
